---- MODULE Spec2Model ----
(***************************************************************************)
(* Model of calculate_home_distribution (src/main.py), the even-           *)
(* distribution calculator of the home distribution agent.                 *)
(*                                                                         *)
(* Numbers.  total_people is a Python int.  distance_km is a Python float; *)
(* it is modelled as a fixed-point number, an integer count of 1/DistScale *)
(* km, and homes_per_km = 13.5 as the fraction 27/2, so that every float   *)
(* expression of the function (distance_km * homes_per_km, avg, avg // 2,  *)
(* x / y) is an exact rational.  IEEE doubles compute these expressions    *)
(* exactly as the rational does as long as the integers involved stay      *)
(* below 2^53, which the bounds of the model do by a wide margin.          *)
(*                                                                         *)
(* Text.  A Python str is a TLA+ string; an f-string is the concatenation  *)
(* of its literal pieces and of str() of its values.                       *)
(***************************************************************************)
EXTENDS Integers, Sequences, FiniteSets, TLC

\* ------------------------------------------------------------------ bounds

\* Distances are counted in units of 1/DistScale km.
DistScale == 20
\* total_people ranges over -MaxNegPeople .. MaxPeople.
MaxPeople == 60
MaxNegPeople == 5
\* distance_km ranges over -MaxNegDist .. MaxDist units of 1/DistScale km.
MaxDist == 60
MaxNegDist == 24
\* Concurrent calls: NumCallers callers, each with total_people in
\* 0 .. MaxConcPeople and distance_km in 0 .. MaxConcDist units.
NumCallers == 2
MaxConcPeople == 2
MaxConcDist == 3

\* --------------------------------------------------------- program constants

\* homes_per_km = 13.5 = 27/2
homes_per_km_num == 27
homes_per_km_den == 2
\* The form's default inputs: 48.0 km and 6900 people.
DefaultDistanceKm == 48
DefaultPeople == 6900

VARIABLES
    total_people,   \* argument total_people of the sequential call
    distance_km,    \* argument distance_km of the sequential call, in 1/DistScale km
    pc,             \* "call" before the call, "done" after it
    locals,         \* the call's bound local integer variables, by name
    pattern_desc,   \* the local pattern_desc ("" while unbound or empty)
    outcome,        \* how the call ended: [kind, value]
    frames          \* the frames of concurrently running calls, by caller

vars == <<total_people, distance_km, pc, locals, pattern_desc, outcome, frames>>

\* ------------------------------------------------------- Python arithmetic

\* floor(a / b) for b /= 0: Python's // on numbers.
FloorDiv(a, b) == IF b > 0 THEN a \div b ELSE (-a) \div (-b)

\* int(a / b) for b > 0: float to int truncates toward zero.
PyInt(a, b) == IF a >= 0 THEN a \div b ELSE -((-a) \div b)

\* Mutant: halves rounded up, as floor(a / b + 0.5) would.
PyRoundHalfUp(a, b) == (2 * a + b) \div (2 * b)

\* round(a / b) for b > 0: Python 3 rounds halves to the even integer.
PyRound(a, b) ==
    LET q == a \div b
        r == a - q * b
    IN  IF 2 * r < b THEN q
        ELSE IF 2 * r > b THEN q + 1
        ELSE IF q % 2 = 0 THEN q ELSE q + 1

Digit(k) ==
    CASE k = 0 -> "0" [] k = 1 -> "1" [] k = 2 -> "2" [] k = 3 -> "3"
      [] k = 4 -> "4" [] k = 5 -> "5" [] k = 6 -> "6" [] k = 7 -> "7"
      [] k = 8 -> "8" [] k = 9 -> "9"

RECURSIVE NatToStr(_)
NatToStr(k) == IF k < 10 THEN Digit(k) ELSE NatToStr(k \div 10) \o Digit(k % 10)

\* str(k) of an int, as an f-string's {k} formats it.
IntToStr(k) == IF k < 0 THEN "-" \o NatToStr(-k) ELSE NatToStr(k)

\* ----------------------------------------------- calculate_home_distribution

\* total_homes = int(distance_km * homes_per_km)
TotalHomes(d) == PyInt(d * homes_per_km_num, DistScale * homes_per_km_den)

\* Mutant: the early return taken on a negative count instead of a zero one.
TooShortNegative(th) == th < 0

\* if total_homes == 0: return "Distance is too short ..."
TooShort(th) == th = 0

TooShortText == "Distance is too short to calculate homes."

\* Mutant: n = int(avg), the step to an even number forgotten.
LowerWhole(tp, th) == IF th > 0 THEN PyInt(tp, th) ELSE PyInt(-tp, -th)

\* avg = total_people / total_homes; n = int(avg // 2) * 2   (th /= 0)
LowerEven(tp, th) == FloorDiv(tp, 2 * th) * 2

\* Mutants: the halving rounded up; the halving forgotten.
HomesAtHighCeil(tp, th, n) == (tp - (n * th) + 1) \div 2
HomesAtHighWhole(tp, th, n) == tp - (n * th)

\* y = int((total_people - (n * total_homes)) // 2)
HomesAtHigh(tp, th, n) == (tp - (n * th)) \div 2

\* Mutant: off by one.
HomesAtBaseOffByOne(th, y) == th - y - 1

\* x = total_homes - y
HomesAtBase(th, y) == th - y

\* ratio = round(x / y) if y != 0 else 0
Ratio(x, y) == IF y /= 0 THEN PyRound(x, y) ELSE 0

\* pattern_desc, as the if/else on y builds it
PatternDesc(x, y, n) ==
    IF y > 0
    THEN "Pattern: " \o IntToStr(Ratio(x, y)) \o " homes with " \o IntToStr(n)
         \o " people followed by 1 home with " \o IntToStr(n + 2) \o " people."
    ELSE "All homes receive exactly " \o IntToStr(n) \o " people."

\* Mutant: the two home counts swapped in the Result line.
ResultTextSwapped(th, x, n, y, pattern) ==
    "Total Homes: " \o IntToStr(th) \o "\n"
    \o "Result: " \o IntToStr(y) \o " homes with " \o IntToStr(n)
    \o " people and " \o IntToStr(x) \o " homes with " \o IntToStr(n + 2)
    \o " people.\n"
    \o pattern

\* The returned f-string.
ResultText(th, x, n, y, pattern) ==
    "Total Homes: " \o IntToStr(th) \o "\n"
    \o "Result: " \o IntToStr(x) \o " homes with " \o IntToStr(n)
    \o " people and " \o IntToStr(y) \o " homes with " \o IntToStr(n + 2)
    \o " people.\n"
    \o pattern

Return(text) == [kind |-> "return", value |-> text]
Raise(exc) == [kind |-> "raise", value |-> exc]
NoOutcome == [kind |-> "none", value |-> ""]

\* The whole call: the locals it binds, pattern_desc, and how it ends.  The
\* true division total_people / total_homes raises ZeroDivisionError on a
\* zero total_homes that gets past the early return.
calculate_home_distribution(tp, d) ==
    LET th == TotalHomes(d)
    IN  IF TooShort(th)
        THEN [locals |-> [v \in {"total_homes"} |-> th],
              pattern_desc |-> "",
              outcome |-> Return(TooShortText)]
        ELSE IF th = 0
        THEN [locals |-> [v \in {"total_homes"} |-> th],
              pattern_desc |-> "",
              outcome |-> Raise("ZeroDivisionError")]
        ELSE LET n == LowerEven(tp, th)
                 y == HomesAtHigh(tp, th, n)
                 x == HomesAtBase(th, y)
                 p == PatternDesc(x, y, n)
             IN  [locals |-> [v \in {"total_homes", "n", "y", "x"} |->
                                CASE v = "total_homes" -> th
                                  [] v = "n" -> n
                                  [] v = "y" -> y
                                  [] v = "x" -> x],
                  pattern_desc |-> p,
                  outcome |-> Return(ResultText(th, x, n, y, p))]

\* ------------------------------------------------------------ sequential call

People == -MaxNegPeople .. MaxPeople
Distances == -MaxNegDist .. MaxDist

NoLocals == [v \in {} |-> 0]

Init ==
    /\ \/ /\ total_people \in People
          /\ distance_km \in Distances
       \/ /\ total_people = DefaultPeople
          /\ distance_km = DefaultDistanceKm * DistScale
    /\ pc = "call"
    /\ locals = NoLocals
    /\ pattern_desc = ""
    /\ outcome = NoOutcome
    /\ frames = << >>

Call ==
    /\ pc = "call"
    /\ LET r == calculate_home_distribution(total_people, distance_km)
       IN  /\ locals' = r.locals
           /\ pattern_desc' = r.pattern_desc
           /\ outcome' = r.outcome
    /\ pc' = "done"
    /\ UNCHANGED <<total_people, distance_km, frames>>

Next == Call

Spec == Init /\ [][Next]_vars

\* ----------------------------------------------------------- concurrent calls
\* Each caller runs the function in a frame of its own, one statement at a
\* time; the statements of different callers interleave freely.

Callers == 1 .. NumCallers

\* The variables of the sequential call, which concurrent calls leave alone.
seqVars == <<total_people, distance_km, pc, locals, pattern_desc, outcome>>

\* Mutant: the names declared global, so bound in one frame shared by all.
SharedFrame(c) == 1

\* The frame in which caller c's names total_homes, n, y, x and pattern_desc
\* are bound: they are local variables of the function, so its own.
Frame(c) == c

Bound(c, names) == names \subseteq DOMAIN frames[Frame(c)].locals
Load(c, name) == frames[Frame(c)].locals[name]
LoadPattern(c) == frames[Frame(c)].pattern_desc

\* frames after caller c binds the integer locals of `binds', moves to `to'
\* and ends with `out'.
Step(c, binds, to, out) ==
    LET f == Frame(c)
        old == frames[f].locals
        new == [v \in DOMAIN old \cup DOMAIN binds |->
                   IF v \in DOMAIN binds THEN binds[v] ELSE old[v]]
        stored == [frames EXCEPT ![f].locals = new]
    IN  [stored EXCEPT ![c].pc = to, ![c].outcome = out]

\* Reading a name that is not bound raises.
Unbound(c) == Step(c, NoLocals, "done", Raise("UnboundLocalError"))

\* total_homes = int(distance_km * homes_per_km)
StmtTotalHomes(c) ==
    /\ UNCHANGED seqVars
    /\ frames[c].pc = "total_homes"
    /\ frames' = Step(c, [v \in {"total_homes"} |-> TotalHomes(frames[c].distance_km)],
                      "if_zero", NoOutcome)

\* if total_homes == 0: return "Distance is too short to calculate homes."
StmtIfZero(c) ==
    /\ UNCHANGED seqVars
    /\ frames[c].pc = "if_zero"
    /\ frames' =
         IF ~Bound(c, {"total_homes"}) THEN Unbound(c)
         ELSE IF TooShort(Load(c, "total_homes"))
         THEN Step(c, NoLocals, "done", Return(TooShortText))
         ELSE Step(c, NoLocals, "n", NoOutcome)

\* avg = total_people / total_homes; n = int(avg // 2) * 2
StmtLowerEven(c) ==
    /\ UNCHANGED seqVars
    /\ frames[c].pc = "n"
    /\ frames' =
         IF ~Bound(c, {"total_homes"}) THEN Unbound(c)
         ELSE IF Load(c, "total_homes") = 0
         THEN Step(c, NoLocals, "done", Raise("ZeroDivisionError"))
         ELSE Step(c, [v \in {"n"} |->
                          LowerEven(frames[c].total_people, Load(c, "total_homes"))],
                   "y", NoOutcome)

\* y = int((total_people - (n * total_homes)) // 2); x = total_homes - y
StmtSolve(c) ==
    /\ UNCHANGED seqVars
    /\ frames[c].pc = "y"
    /\ frames' =
         IF ~Bound(c, {"total_homes", "n"}) THEN Unbound(c)
         ELSE LET y == HomesAtHigh(frames[c].total_people,
                                   Load(c, "total_homes"), Load(c, "n"))
              IN  Step(c, [v \in {"y", "x"} |->
                              IF v = "y" THEN y
                              ELSE HomesAtBase(Load(c, "total_homes"), y)],
                       "pattern", NoOutcome)

\* pattern_desc = "" and the if/else on y that sets it
StmtPattern(c) ==
    /\ UNCHANGED seqVars
    /\ frames[c].pc = "pattern"
    /\ frames' =
         IF ~Bound(c, {"n", "y", "x"}) THEN Unbound(c)
         ELSE LET p == PatternDesc(Load(c, "x"), Load(c, "y"), Load(c, "n"))
                  stored == [frames EXCEPT ![Frame(c)].pattern_desc = p]
              IN  [stored EXCEPT ![c].pc = "return"]

\* return (f"Total Homes: ...")
StmtReturn(c) ==
    /\ UNCHANGED seqVars
    /\ frames[c].pc = "return"
    /\ frames' =
         IF ~Bound(c, {"total_homes", "n", "y", "x"}) THEN Unbound(c)
         ELSE Step(c, NoLocals, "done",
                   Return(ResultText(Load(c, "total_homes"), Load(c, "x"),
                                     Load(c, "n"), Load(c, "y"), LoadPattern(c))))

ConcPeople == 0 .. MaxConcPeople
ConcDistances == 0 .. MaxConcDist

NewFrame(tp, d) ==
    [total_people |-> tp, distance_km |-> d, pc |-> "total_homes",
     locals |-> NoLocals, pattern_desc |-> "", outcome |-> NoOutcome]

InitConc ==
    /\ frames \in [Callers -> {NewFrame(tp, d) : tp \in ConcPeople, d \in ConcDistances}]
    /\ total_people = 0
    /\ distance_km = 0
    /\ pc = "idle"
    /\ locals = NoLocals
    /\ pattern_desc = ""
    /\ outcome = NoOutcome

NextConc ==
    \/ \E c \in Callers : StmtTotalHomes(c)
    \/ \E c \in Callers : StmtIfZero(c)
    \/ \E c \in Callers : StmtLowerEven(c)
    \/ \E c \in Callers : StmtSolve(c)
    \/ \E c \in Callers : StmtPattern(c)
    \/ \E c \in Callers : StmtReturn(c)

SpecConc == InitConc /\ [][NextConc]_vars

\* --------------------------------------------------------------------- claims

Done == pc = "done"

\* A valid request: both inputs non-negative.
Valid == total_people >= 0 /\ distance_km >= 0

\* floor(distance_km * 13.5), stated on the inputs alone.
FloorHomes == (distance_km * homes_per_km_num) \div (DistScale * homes_per_km_den)

\* The call returned a distribution: its counts are bound.
Distributed ==
    /\ outcome.kind = "return"
    /\ DOMAIN locals = {"total_homes", "n", "y", "x"}

\* base_count * homes_at_base + (base_count + 2) * homes_at_high
Allocated == locals["n"] * locals["x"] + (locals["n"] + 2) * locals["y"]

ResultLine(x, b, y, h) ==
    "Result: " \o IntToStr(x) \o " homes with " \o IntToStr(b) \o " people and "
    \o IntToStr(y) \o " homes with " \o IntToStr(h) \o " people."

\* C1: for every valid input with total_homes > 0 the returned counts satisfy
\* n*x + (n+2)*y = total_people exactly.  The code does not: the allocation
\* is always even, so an odd total_people is never reproduced.
C1_ExactTotal ==
    (Done /\ Valid /\ FloorHomes > 0) => (Distributed /\ Allocated = total_people)

\* C2: for every input with total_homes > 0, total_homes is
\* floor(distance_km * 13.5) and homes_at_base + homes_at_high = total_homes.
C2_HomesAddUp ==
    (Done /\ FloorHomes > 0) =>
        /\ Distributed
        /\ locals["total_homes"] = FloorHomes
        /\ locals["x"] + locals["y"] = locals["total_homes"]

C2_Witness ==
    /\ Done /\ FloorHomes > 0 /\ Distributed
    /\ locals["x"] > 0 /\ locals["y"] > 0

C4_TooFewHomes ==
    (Done /\ FloorHomes = 0) =>
        /\ outcome = Return(TooShortText)
        /\ DOMAIN locals = {"total_homes"}
        /\ locals["total_homes"] = 0
        /\ pattern_desc = ""

C4_Witness ==
    /\ Done /\ FloorHomes = 0
    /\ distance_km > 0
    /\ total_people > 0

\* C5: a call with a negative total_people or distance_km is rejected with
\* InvalidArgument and produces no distribution.  The code validates nothing.
C5_NegativeRejected ==
    (Done /\ (total_people < 0 \/ distance_km < 0)) =>
        /\ outcome = Raise("InvalidArgument")
        /\ ~Distributed

\* C6: for every input with total_homes > 0 the returned text is three lines:
\* "Total Homes: N", "Result: X homes with B people and Y homes with B+2
\* people." and the pattern sentence.
C6_ThreeLines ==
    (Done /\ FloorHomes > 0) =>
        /\ Distributed
        /\ \E pattern \in {"All homes receive exactly " \o IntToStr(locals["n"]) \o " people."}
                  \cup {"Pattern: " \o IntToStr(r) \o " homes with "
                        \o IntToStr(locals["n"]) \o " people followed by 1 home with "
                        \o IntToStr(locals["n"] + 2) \o " people."
                        : r \in 0 .. FloorHomes} :
              outcome.value =
                  "Total Homes: " \o IntToStr(FloorHomes) \o "\n"
                  \o ResultLine(locals["x"], locals["n"], locals["y"], locals["n"] + 2)
                  \o "\n" \o pattern

C6_Witness ==
    /\ Done /\ FloorHomes > 0 /\ Distributed
    /\ locals["y"] > 0
    /\ locals["x"] /= locals["y"]
    /\ locals["n"] > 0

\* r is x / y rounded to the nearest integer, a half going to the even one
\* (Python's round), for y > 0.
IsRounded(r, x, y) ==
    LET twice == 2 * x - 2 * r * y
        dist == IF twice >= 0 THEN twice ELSE -twice
    IN  /\ dist <= y
        /\ dist = y => r % 2 = 0

\* C7: for every input with total_homes > 0 the pattern sentence is chosen by
\* homes_at_high alone: "All homes receive exactly B people." when it is 0,
\* "Pattern: R homes with B people followed by 1 home with B+2 people." with
\* R = round(homes_at_base / homes_at_high) when it is > 0; no division by zero.
C7_PatternSentence ==
    (Done /\ FloorHomes > 0) =>
        /\ Distributed
        /\ locals["y"] = 0 =>
              pattern_desc =
                  "All homes receive exactly " \o IntToStr(locals["n"]) \o " people."
        /\ locals["y"] > 0 =>
              \E r \in 0 .. FloorHomes :
                  /\ IsRounded(r, locals["x"], locals["y"])
                  /\ pattern_desc =
                        "Pattern: " \o IntToStr(r) \o " homes with "
                        \o IntToStr(locals["n"]) \o " people followed by 1 home with "
                        \o IntToStr(locals["n"] + 2) \o " people."

\* A tie: homes_at_base / homes_at_high is an odd multiple of one half.
C7_Witness ==
    /\ Done /\ FloorHomes > 0 /\ Distributed
    /\ locals["y"] > 0
    /\ 2 * locals["x"] = 5 * locals["y"]

\* C8: under any interleaving of concurrent calls, everything a call has
\* computed so far, and its result, is what the call computes alone from its
\* own total_people and distance_km; calls with equal inputs end alike.
C8_Stateless ==
    /\ \A c \in Callers :
          LET alone == calculate_home_distribution(frames[c].total_people,
                                                   frames[c].distance_km)
          IN  /\ \A v \in DOMAIN frames[c].locals :
                    /\ v \in DOMAIN alone.locals
                    /\ frames[c].locals[v] = alone.locals[v]
              /\ frames[c].pattern_desc \in {"", alone.pattern_desc}
              /\ frames[c].pc = "done" =>
                    /\ frames[c].outcome = alone.outcome
                    /\ frames[c].locals = alone.locals
                    /\ frames[c].pattern_desc = alone.pattern_desc
    /\ \A c1, c2 \in Callers :
          ( /\ frames[c1].pc = "done" /\ frames[c2].pc = "done"
            /\ frames[c1].total_people = frames[c2].total_people
            /\ frames[c1].distance_km = frames[c2].distance_km )
          => frames[c1].outcome = frames[c2].outcome

\* Two calls in flight at once, on different inputs, each past its first
\* statements.
C8_Witness ==
    /\ frames[1].pc = "return"
    /\ frames[2].pc = "pattern"
    /\ frames[1].locals["n"] /= frames[2].locals["n"]
    /\ frames[1].locals["total_homes"] /= frames[2].locals["total_homes"]

C9_OutOfRangeReached ==
    /\ Done /\ Distributed
    /\ locals["y"] < 0
    /\ distance_km < 0

====
